---- MODULE Spec2Model ----
(***************************************************************************)
(* Bridge envelope codec of kat-bridge-dev-integration.                    *)
(*                                                                         *)
(*   generate-script.js : generateBridgeScript builds a redeem script      *)
(*                        <pubkey push> OP_CHECKSIG <kasplex envelope>.    *)
(*   parse-script.js    : the top-level script body locates the envelope   *)
(*                        in a signature script and decodes both lanes.    *)
(*   from_l2_to_l1.js   : burnTokens estimates, sends and awaits the burn  *)
(*                        transaction on the L2 chain.                     *)
(*                                                                         *)
(* Bytes are naturals 0..255, byte strings are sequences of bytes.  Text   *)
(* is a sequence of code points.  A hex string is a sequence of hex-digit  *)
(* values 0..15, with XCH standing for the character 'x' (the only         *)
(* non-hex character the two programs ever put into a hex string).         *)
(***************************************************************************)
EXTENDS Integers, Sequences, FiniteSets, TLC

\* ------------------------------------------------------------------ bounds
\* Longest run of unrelated bytes placed in front of a hand-made script.
MaxJunk == 2
\* Payload lengths 0..MaxProbeLen (plus the 16-bit boundary lengths) are
\* framed by the builder's push framing in the length-codec probe.
MaxProbeLen == 300

\* --------------------------------------------------------- program constants
OP_FALSE     == 0
OP_IF        == 99
OP_1         == 81
OP_ENDIF     == 104
OP_CHECKSIG  == 172
OP_PUSHDATA1 == 76
OP_PUSHDATA2 == 77
MaxDirect    == 75
MaxPush1     == 255
MaxScript    == 520
CborMapTag16 == 185
LegacyMinLen == 29

\* The character 'x' inside a hex string.
XCH == 16
\* JavaScript undefined / null, for numbers and for strings and byte arrays.
UNDEF == -1
NULL  == << -1 >>

Kasplex == <<107, 97, 115, 112, 108, 101, 120>>

\* ------------------------------------------------------------------ helpers
Rep(b, n) == [i \in 1..n |-> b]

\* Array.prototype.slice / TypedArray.prototype.slice with 0-based bounds.
SliceJS(s, from, to) ==
    SubSeq(s, from + 1, IF to > Len(s) THEN Len(s) ELSE to)

\* The concatenation of parts[lo..hi], and of all the parts.
RECURSIVE FlattenRange(_, _, _)
FlattenRange(parts, lo, hi) ==
    IF lo > hi THEN <<>>
    ELSE IF lo = hi THEN parts[lo]
    ELSE LET mid == (lo + hi) \div 2
         IN  FlattenRange(parts, lo, mid) \o FlattenRange(parts, mid + 1, hi)

Flatten(parts) == FlattenRange(parts, 1, Len(parts))

\* A JavaScript number that may need more than 31 bits is kept as the pair
\* of its 16-bit halves: value = hi * 65536 + lo.
U(h, l) == [hi |-> h, lo |-> l]
Small(n) == U(n \div 65536, n % 65536)
UNDEFN == U(-1, -1)
\* The number hi * 65536 + lo has lo in 0..65535; a negative hi makes it
\* negative.  A lo of -2 stands for a number that is not an integer (hi + 0.5).
MinusOne == U(-1, 65535)
OneAndHalf == U(1, -2)
IsInteger(value) == value.lo >= 0
IsUint32(value) == IsInteger(value) /\ value.hi >= 0 /\ value.hi < 65536

\* A number stored into a Uint8Array element: reduced modulo 256; NaN -> 0.
Uint8(x) == x % 256

\* The upper half of ToInt32(value), as the signed 16-bit number that the
\* operators >> and & see.
HiSigned(value) ==
    LET h == value.hi % 65536 IN IF h >= 32768 THEN h - 65536 ELSE h

Ok(v)   == [ok |-> TRUE,  val |-> v,    err |-> "none"]
Fail(e) == [ok |-> FALSE, val |-> <<>>, err |-> e]

\* ----------------------------------------------------- generate-script.js
\* bytesToHex: '0x' followed by two lower-case digits per byte.
bytesToHex(bytes) ==
    <<0, XCH>> \o [i \in 1..(2 * Len(bytes)) |->
                     IF i % 2 = 1 THEN bytes[(i + 1) \div 2] \div 16
                                  ELSE bytes[i \div 2] % 16]

\* parseInt(two characters, 16) stored into a Uint8Array: the longest hex
\* prefix is parsed, an empty prefix gives NaN which is stored as 0.
ParseInt16(a, b) ==
    IF a > 15 THEN 0 ELSE IF b > 15 THEN a ELSE 16 * a + b

hexToBytes(hex) ==
    LET h == IF Len(hex) >= 2 /\ hex[1] = 0 /\ hex[2] = XCH
             THEN SubSeq(hex, 3, Len(hex)) ELSE hex
    IN  IF Len(h) % 2 # 0 THEN Fail("invalid hex length")
        ELSE Ok([i \in 1..(Len(h) \div 2) |-> ParseInt16(h[2 * i - 1], h[2 * i])])

ensureAddressBytes20NoCheck(addr) == hexToBytes(addr)

ensureAddressBytes20(addr) ==
    LET bytes == hexToBytes(addr)
    IN  IF ~bytes.ok THEN bytes
        ELSE IF Len(bytes.val) # 20 THEN Fail("address must be 20 bytes")
        ELSE bytes

\* A number branch that writes the low byte first.
CborNumberLowFirst(value) ==
    IF ~(IsInteger(value) /\ value.hi >= 0) THEN Fail("Unsupported CBOR type")
    ELSE IF value.hi = 0 /\ value.lo < 24 THEN Ok(<<value.lo>>)
    ELSE IF value.hi = 0 /\ value.lo < 256 THEN Ok(<<24, Uint8(value.lo)>>)
    ELSE IF value.hi = 0
         THEN Ok(<<25, value.lo % 256, Uint8(value.lo \div 256)>>)
    ELSE IF value.hi < 65536
         THEN Ok(<<26, value.lo % 256, value.lo \div 256,
                   HiSigned(value) % 256, Uint8(HiSigned(value) \div 256)>>)
    ELSE Fail("Unsupported CBOR type")

\* Fallback cborEncode, number branch; a number that is negative, not an
\* integer or not below 2^32 falls through to the final throw.
CborNumber(value) ==
    IF ~(IsInteger(value) /\ value.hi >= 0) THEN Fail("Unsupported CBOR type")
    ELSE IF value.hi = 0 /\ value.lo < 24 THEN Ok(<<value.lo>>)
    ELSE IF value.hi = 0 /\ value.lo < 256 THEN Ok(<<24, Uint8(value.lo)>>)
    ELSE IF value.hi = 0
         THEN Ok(<<25, Uint8(value.lo \div 256), value.lo % 256>>)
    ELSE IF value.hi < 65536
         THEN Ok(<<26, Uint8(HiSigned(value) \div 256), HiSigned(value) % 256,
                   value.lo \div 256, value.lo % 256>>)
    ELSE Fail("Unsupported CBOR type")

\* Fallback cborEncode, Uint8Array branch.
CborBytes(value) ==
    LET len == Len(value)
    IN  IF len < 24 THEN Ok(<<64 + len>> \o value)
        ELSE IF len < 256 THEN Ok(<<88, len>> \o value)
        ELSE IF len < 65536 THEN Ok(<<89, Uint8(len \div 256), len % 256>> \o value)
        ELSE Fail("Data too large for CBOR")

\* Fallback cborEncode, text key of a map entry.
CborKey(key) ==
    LET keyLen == Len(key)
    IN  IF keyLen < 24 THEN Ok(<<96 + keyLen>> \o key)
        ELSE IF keyLen < 256 THEN Ok(<<120, keyLen>> \o key)
        ELSE Fail("Key too long for CBOR")

\* Fallback cborEncode, object branch, for the blob {v, c, l, s}.
cborEncodeFallback(blob) ==
    LET c == CborNumber(blob.c)
        l == CborBytes(blob.l)
        s == CborBytes(blob.s)
    IN  IF ~c.ok THEN c
        ELSE IF ~l.ok THEN l
        ELSE IF ~s.ok THEN s
        ELSE Ok(Flatten(<< <<160 + 4>>,
                           CborKey(<<118>>).val, CborNumber(blob.v).val,
                           CborKey(<<99>>).val,  c.val,
                           CborKey(<<108>>).val, l.val,
                           CborKey(<<115>>).val, s.val >>))

\* cborX.encode of the library cbor-x (Node build) for the same blob: a map
\* with a 16-bit entry count, unsigned integers in the shortest form and
\* each Uint8Array as tag 64 around a byte string.
cborEncodeLibrary(blob) ==
    Ok(Flatten(<< <<CborMapTag16, 0, 4>>,
                  <<97, 118>>, CborNumber(blob.v).val,
                  <<97, 99>>,  CborNumber(blob.c).val,
                  <<97, 108>>, <<216, 64>>, CborBytes(blob.l).val,
                  <<97, 115>>, <<216, 64>>, CborBytes(blob.s).val >>))

\* The binding of cborEncode made when the module is loaded.
cborEncode(lib, blob) ==
    IF lib THEN cborEncodeLibrary(blob) ELSE cborEncodeFallback(blob)

\* Number.prototype.toString for a non-negative integer below 10^21.
RECURSIVE ToDecimal(_)
ToDecimal(n) ==
    IF n < 10 THEN <<48 + n>> ELSE ToDecimal(n \div 10) \o <<48 + (n % 10)>>

\* JSON.stringify of a string without control characters.
JsonEscape(s) ==
    Flatten([i \in 1..Len(s) |->
                IF s[i] = 34 \/ s[i] = 92 THEN <<92, s[i]>> ELSE <<s[i]>>])

JsonString(s) == <<34>> \o JsonEscape(s) \o <<34>>

\* One "key":"value" member; a member whose value is undefined is omitted.
JsonMember(key, value) ==
    IF value = NULL THEN <<>> ELSE << JsonString(key) \o <<58>> \o JsonString(value) >>

RECURSIVE JoinMembers(_)
JoinMembers(ms) ==
    IF ms = <<>> THEN <<>>
    ELSE IF Len(ms) = 1 THEN ms[1]
    ELSE ms[1] \o <<44>> \o JoinMembers(Tail(ms))

buildKrc20TransferJSON(token, amount, toKaspaAddress) ==
    LET base == JsonMember(<<112>>, <<107, 114, 99, 45, 50, 48>>)
                \o JsonMember(<<111, 112>>, <<116, 114, 97, 110, 115, 102, 101, 114>>)
                \o JsonMember(<<97, 109, 116>>, ToDecimal(amount))
                \o JsonMember(<<116, 111>>, toKaspaAddress)
        last == IF token.mode = "issue" THEN JsonMember(<<99, 97>>, token.ca)
                ELSE JsonMember(<<116, 105, 99, 107>>, token.tick)
    IN  <<123>> \o JoinMembers(base \o last) \o <<125>>

\* TextEncoder.encode: UTF-8 of code points below 0x800.
Utf8Encode(s) ==
    Flatten([i \in 1..Len(s) |->
                IF s[i] < 128 THEN <<s[i]>>
                ELSE <<192 + (s[i] \div 64), 128 + (s[i] % 64)>>])

buildOptimalExtraAndContent(lib, params) ==
    LET l2 == ensureAddressBytes20(params.l2Address)
        sig == hexToBytes(params.signatureRS)
    IN  IF ~l2.ok THEN Fail(l2.err)
        ELSE IF ~sig.ok THEN Fail(sig.err)
        ELSE IF Len(sig.val) # 64 THEN Fail("signature must be 64 bytes (r+s without v)")
        ELSE LET extra == cborEncode(lib, [v |-> Small(1), c |-> params.chainId,
                                           l |-> l2.val, s |-> sig.val])
             IN  IF ~extra.ok THEN Fail(extra.err)
                 ELSE Ok(<<extra.val,
                           buildKrc20TransferJSON(params.token, params.amount, params.to)>>)

\* A framing that lacks the OP_PUSHDATA1 tier.
PushPrefixDirectOnly(n, tooLarge) ==
    IF n <= MaxPush1 THEN Ok(<<n>>) ELSE Fail(tooLarge)

\* The push framing written in front of a payload of n bytes.
PushPrefix(n, tooLarge) ==
    IF n <= MaxDirect THEN Ok(<<n>>)
    ELSE IF n <= MaxPush1 THEN Ok(<<OP_PUSHDATA1, n>>)
    ELSE Fail(tooLarge)

\* The envelope around the extra bytes and the encoded content text.
EnvelopeSuffixOfBytes(extra, contentBytes) ==
    LET head == <<OP_FALSE, OP_IF, 7>> \o Kasplex
        ep == PushPrefix(Len(extra), "Extra data too large")
        cp == PushPrefix(Len(contentBytes), "Content too large")
    IN  IF Len(extra) > 0 /\ ~ep.ok THEN Fail(ep.err)
        ELSE IF ~cp.ok THEN Fail(cp.err)
        ELSE LET suffix == head
                           \o (IF Len(extra) > 0 THEN <<OP_1>> \o ep.val \o extra ELSE <<>>)
                           \o <<OP_FALSE>> \o cp.val \o contentBytes
                           \o <<OP_ENDIF>>
             IN  IF Len(suffix) > MaxScript THEN Fail("envelope too large (>520 bytes)")
                 ELSE Ok(suffix)

\* A builder that cuts the content down to what one push can hold.
buildEnvelopeSuffixTruncating(extra, contentJson) ==
    EnvelopeSuffixOfBytes(extra, SliceJS(Utf8Encode(contentJson), 0, MaxPush1))

buildEnvelopeSuffix(extra, contentJson) ==
    EnvelopeSuffixOfBytes(extra, Utf8Encode(contentJson))

\* A redeem script that pushes the key as it was given.
buildSingleSigRedeemWholeKey(pubkey33, envelopeSuffix) ==
    IF Len(pubkey33) \notin {32, 33}
    THEN Fail("pubkey must be 33-byte compressed or 32-byte x-only")
    ELSE Ok(<<Len(pubkey33)>> \o pubkey33 \o <<OP_CHECKSIG>> \o envelopeSuffix)

buildSingleSigRedeem(pubkey33, envelopeSuffix) ==
    LET isCompressed == Len(pubkey33) = 33 /\ (pubkey33[1] = 2 \/ pubkey33[1] = 3)
        isXOnly == Len(pubkey33) = 32
        pubkeyXOnly == IF isCompressed THEN Tail(pubkey33) ELSE pubkey33
    IN  IF ~isCompressed /\ ~isXOnly
        THEN Fail("pubkey must be 33-byte compressed or 32-byte x-only")
        ELSE IF Len(pubkeyXOnly) > MaxDirect THEN Fail("Public key too large")
        ELSE LET redeem == <<Len(pubkeyXOnly)>> \o pubkeyXOnly \o <<OP_CHECKSIG>>
                           \o envelopeSuffix
             IN  IF Len(redeem) > MaxScript THEN Fail("redeem exceeds 520-byte limit")
                 ELSE Ok(redeem)

\* A parameter check that refuses only the parameters that are not given.
generateBridgeScriptDefinedOnly(lib, params) ==
    LET none == [ok |-> FALSE, err |-> "none", script |-> <<>>, extra |-> <<>>,
                 content |-> <<>>, suffix |-> <<>>]
    IN  IF params.publicKey = NULL THEN [none EXCEPT !.err = "publicKey is required"]
        ELSE IF params.chainId = UNDEFN
             THEN [none EXCEPT !.err = "chainId is required"]
        ELSE IF params.l2Address = NULL
             THEN [none EXCEPT !.err = "l2Address is required"]
        ELSE IF params.signatureRS = NULL
             THEN [none EXCEPT !.err = "signatureRS is required"]
        ELSE IF ~params.token.present THEN [none EXCEPT !.err = "token is required"]
        ELSE IF params.amount = UNDEF
             THEN [none EXCEPT !.err = "amount is required"]
        ELSE IF params.to = NULL
             THEN [none EXCEPT !.err = "to is required"]
        ELSE LET ec == buildOptimalExtraAndContent(lib, params)
             IN  IF ~ec.ok THEN [none EXCEPT !.err = ec.err]
                 ELSE LET suffix == buildEnvelopeSuffix(ec.val[1], ec.val[2])
                      IN  IF ~suffix.ok THEN [none EXCEPT !.err = suffix.err]
                          ELSE LET redeem == buildSingleSigRedeem(params.publicKey, suffix.val)
                               IN  IF ~redeem.ok THEN [none EXCEPT !.err = redeem.err]
                                   ELSE [ok |-> TRUE, err |-> "none",
                                         script |-> redeem.val, extra |-> ec.val[1],
                                         content |-> ec.val[2], suffix |-> suffix.val]

\* The result of generateBridgeScript together with the intermediate values
\* it computed: extra, content text and envelope suffix.
generateBridgeScript(lib, params) ==
    LET none == [ok |-> FALSE, err |-> "none", script |-> <<>>, extra |-> <<>>,
                 content |-> <<>>, suffix |-> <<>>]
    IN  IF params.publicKey = NULL THEN [none EXCEPT !.err = "publicKey is required"]
        ELSE IF params.chainId = UNDEFN \/ params.chainId = Small(0)
             THEN [none EXCEPT !.err = "chainId is required"]
        ELSE IF params.l2Address = NULL \/ params.l2Address = <<>>
             THEN [none EXCEPT !.err = "l2Address is required"]
        ELSE IF params.signatureRS = NULL \/ params.signatureRS = <<>>
             THEN [none EXCEPT !.err = "signatureRS is required"]
        ELSE IF ~params.token.present THEN [none EXCEPT !.err = "token is required"]
        ELSE IF params.amount = UNDEF \/ params.amount = 0
             THEN [none EXCEPT !.err = "amount is required"]
        ELSE IF params.to = NULL \/ params.to = <<>>
             THEN [none EXCEPT !.err = "to is required"]
        ELSE LET ec == buildOptimalExtraAndContent(lib, params)
             IN  IF ~ec.ok THEN [none EXCEPT !.err = ec.err]
                 ELSE LET suffix == buildEnvelopeSuffix(ec.val[1], ec.val[2])
                      IN  IF ~suffix.ok THEN [none EXCEPT !.err = suffix.err]
                          ELSE LET redeem == buildSingleSigRedeem(params.publicKey, suffix.val)
                               IN  IF ~redeem.ok THEN [none EXCEPT !.err = redeem.err]
                                   ELSE [ok |-> TRUE, err |-> "none",
                                         script |-> redeem.val, extra |-> ec.val[1],
                                         content |-> ec.val[2], suffix |-> suffix.val]

\* -------------------------------------------------------- parse-script.js
\* The script bytes of the --script argument: the hex string is cut into
\* chunks of two characters (the last chunk may hold one) and each chunk goes
\* through parseInt(chunk, 16) into a Uint8Array.
ScriptBytesOfHex(hex) ==
    [i \in 1..((Len(hex) + 1) \div 2) |->
        IF 2 * i <= Len(hex) THEN ParseInt16(hex[2 * i - 1], hex[2 * i])
        ELSE ParseInt16(hex[2 * i - 1], XCH)]

MinOf(S) == CHOOSE x \in S : \A y \in S : x <= y

MatchAt(bytes, i) == \A j \in 0..(Len(Kasplex) - 1) : bytes[i + j + 1] = Kasplex[j + 1]

\* The offsets the search loop visits: i < scriptBytes.length - 7.
SearchOffsets(bytes) == 0..(Len(bytes) - Len(Kasplex) - 1)

\* kasplexPos, -1 when the loop ends without a match.
FindKasplex(bytes) ==
    LET hits == {i \in SearchOffsets(bytes) : MatchAt(bytes, i)}
    IN  IF hits = {} THEN -1 ELSE MinOf(hits)

\* while (pos < length && scriptBytes[pos] !== b) pos++
ScanFor(bytes, from, b) ==
    LET hits == {p \in from..(Len(bytes) - 1) : bytes[p + 1] = b}
    IN  IF hits # {} THEN MinOf(hits)
        ELSE IF from > Len(bytes) THEN from ELSE Len(bytes)

Length(n, p) == [ok |-> TRUE,  len |-> n, pos |-> p, err |-> "none"]
NoLength(e)  == [ok |-> FALSE, len |-> 0, pos |-> 0, err |-> e]

\* Length decoding of the EXTRA lane; pos is the offset of the length byte.
ExtraPushLength(bytes, pos) ==
    LET lengthByte == bytes[pos + 1]
        p == pos + 1
    IN  IF lengthByte <= MaxDirect THEN Length(lengthByte, p)
        ELSE IF lengthByte = OP_PUSHDATA1
             THEN IF p >= Len(bytes) THEN NoLength("OP_PUSHDATA1 missing length byte")
                  ELSE Length(bytes[p + 1], p + 1)
        ELSE IF lengthByte = OP_PUSHDATA2
             THEN IF p + 1 >= Len(bytes) THEN NoLength("OP_PUSHDATA2 missing length bytes")
                  ELSE Length(bytes[p + 1] + 256 * bytes[p + 2], p + 2)
        ELSE NoLength("Unsupported push opcode")

\* Length decoding of the CONTENT lane.
ContentPushLength(bytes, pos) ==
    LET lengthByte == bytes[pos + 1]
        p == pos + 1
    IN  IF lengthByte <= MaxDirect THEN Length(lengthByte, p)
        ELSE IF lengthByte = OP_PUSHDATA1
             THEN IF p >= Len(bytes)
                  THEN NoLength("CONTENT OP_PUSHDATA1 missing length byte")
                  ELSE Length(bytes[p + 1], p + 1)
        ELSE IF lengthByte = OP_PUSHDATA2
             THEN IF p + 1 >= Len(bytes)
                  THEN NoLength("CONTENT OP_PUSHDATA2 missing length bytes")
                  ELSE Length(bytes[p + 1] + 256 * bytes[p + 2], p + 2)
        ELSE NoLength("CONTENT unsupported push opcode")

\* ---- CBOR.decode of the library cbor-js, for definite-length items whose
\* ---- arguments take at most four bytes (the items the model's inputs hold).
NoItem == [ok |-> FALSE, next |-> 0, kind |-> "none", num |-> UNDEFN, seq |-> <<>>]
Absent == [ok |-> TRUE,  next |-> 0, kind |-> "undefined", num |-> UNDEFN, seq |-> <<>>]
Item(n, k, v, q) == [ok |-> TRUE, next |-> n, kind |-> k, num |-> v, seq |-> q]

\* Initial byte and argument of the data item at offset p.
CborHead(data, p) ==
    LET bad == [ok |-> FALSE, major |-> 0, arg |-> UNDEFN, next |-> 0]
    IN  IF p >= Len(data) THEN bad
        ELSE LET ib == data[p + 1]
                 ai == ib % 32
                 hd(a, n) == [ok |-> TRUE, major |-> ib \div 32, arg |-> a, next |-> n]
             IN  IF ai < 24 THEN hd(Small(ai), p + 1)
                 ELSE IF ai = 24
                      THEN IF p + 2 > Len(data) THEN bad ELSE hd(Small(data[p + 2]), p + 2)
                 ELSE IF ai = 25
                      THEN IF p + 3 > Len(data) THEN bad
                           ELSE hd(U(0, data[p + 2] * 256 + data[p + 3]), p + 3)
                 ELSE IF ai = 26
                      THEN IF p + 5 > Len(data) THEN bad
                           ELSE hd(U(data[p + 2] * 256 + data[p + 3],
                                     data[p + 4] * 256 + data[p + 5]), p + 5)
                 ELSE bad

RECURSIVE CborItem(_, _), CborSkip(_, _, _)
\* decodeItem, given the head h of the item.
CborItemOf(data, h) ==
    IF ~h.ok THEN NoItem
    ELSE IF h.major = 0 THEN Item(h.next, "uint", h.arg, <<>>)
    ELSE IF h.major \in {2, 3}
         THEN IF h.arg.hi # 0 \/ h.next + h.arg.lo > Len(data) THEN NoItem
              ELSE Item(h.next + h.arg.lo,
                        IF h.major = 2 THEN "bytes" ELSE "text", UNDEFN,
                        SliceJS(data, h.next, h.next + h.arg.lo))
    ELSE IF h.major \in {4, 5}
         THEN IF h.arg.hi # 0 THEN NoItem
              ELSE Item(CborSkip(data, h.next,
                                 IF h.major = 4 THEN h.arg.lo ELSE 2 * h.arg.lo),
                        "other", UNDEFN, <<>>)
    ELSE IF h.major = 6 THEN CborItem(data, h.next)
    ELSE Item(h.next, "other", UNDEFN, <<>>)

\* decodeItem at offset p; an item that ends at -1 has failed inside.
ItemOrNone(it) == IF it.ok /\ it.next < 0 THEN NoItem ELSE it

CborItem(data, p) == ItemOrNone(CborItemOf(data, CborHead(data, p)))

CborSkipAfter(data, it, n) ==
    IF ~it.ok THEN -1 ELSE CborSkip(data, it.next, n - 1)

\* The offset after n consecutive items starting at p, -1 when one fails.
CborSkip(data, p, n) ==
    IF n = 0 THEN p ELSE CborSkipAfter(data, CborItem(data, p), n)

KeyName(key) ==
    IF key.kind = "text" /\ key.seq = <<118>> THEN "v"
    ELSE IF key.kind = "text" /\ key.seq = <<99>> THEN "c"
    ELSE IF key.kind = "text" /\ key.seq = <<108>> THEN "l"
    ELSE IF key.kind = "text" /\ key.seq = <<115>> THEN "s"
    ELSE "other"

RECURSIVE CborEntries(_, _, _, _)
\* retObject[key] = value
CborSetEntry(data, name, value, n, obj) ==
    IF ~value.ok THEN [ok |-> FALSE, next |-> 0, obj |-> obj]
    ELSE CborEntries(data, value.next, n - 1,
                     IF name = "other" THEN obj ELSE [obj EXCEPT ![name] = value])

CborEntryOf(data, key, n, obj) ==
    IF ~key.ok THEN [ok |-> FALSE, next |-> 0, obj |-> obj]
    ELSE CborSetEntry(data, KeyName(key), CborItem(data, key.next), n, obj)

\* The n key/value pairs of a map starting at p, gathered into obj.
CborEntries(data, p, n, obj) ==
    IF n = 0 THEN [ok |-> TRUE, next |-> p, obj |-> obj]
    ELSE CborEntryOf(data, CborItem(data, p), n, obj)

NoObject == [v |-> Absent, c |-> Absent, l |-> Absent, s |-> Absent]

CborDecodeEnd(data, es) ==
    IF ~es.ok \/ es.next # Len(data) THEN [ok |-> FALSE, obj |-> NoObject]
    ELSE [ok |-> TRUE, obj |-> es.obj]

CborDecodeMap(data, h) ==
    IF ~h.ok \/ h.major # 5 \/ h.arg.hi # 0 THEN [ok |-> FALSE, obj |-> NoObject]
    ELSE CborDecodeEnd(data, CborEntries(data, h.next, h.arg.lo, NoObject))

\* CBOR.decode(extraData.buffer) for data starting with a map head: the
\* object's v, c, l and s properties, or a failure (the decoder throws when
\* the data ends early or bytes remain after the item).
CborDecode(data) == CborDecodeMap(data, CborHead(data, 0))

NoRouting == [format |-> "none", version |-> UNDEFN, chainId |-> UNDEFN,
              bridgeId |-> UNDEFN, l2 |-> NULL, sig |-> NULL]

\* The four bytes at offset off read with the high byte first.
Uint32BE(data, off) ==
    U(data[off + 1] * 256 + data[off + 2], data[off + 3] * 256 + data[off + 4])

\* getUint32(0, true) of the four bytes at offset off.
Uint32LE(data, off) ==
    U(data[off + 4] * 256 + data[off + 3], data[off + 2] * 256 + data[off + 1])

\* What the parser reports for a decoded blob.
RoutingOfObject(obj) ==
    [format |-> "current",
     version |-> IF obj.v.kind = "uint" THEN obj.v.num ELSE UNDEFN,
     chainId |-> IF obj.c.kind = "uint" THEN obj.c.num ELSE UNDEFN,
     bridgeId |-> UNDEFN,
     l2 |-> IF obj.l.kind \in {"bytes", "text"} /\ Len(obj.l.seq) = 20
            THEN obj.l.seq ELSE NULL,
     sig |-> IF obj.s.kind \in {"bytes", "text"} /\ Len(obj.s.seq) = 64
             THEN obj.s.seq ELSE NULL]

LegacyRouting(extraData) ==
    [format |-> "legacy",
     version |-> Small(extraData[1]),
     chainId |-> Uint32LE(extraData, 1),
     bridgeId |-> Uint32LE(extraData, 5),
     l2 |-> SliceJS(extraData, 9, 29),
     sig |-> NULL]

\* The first byte that selects the CBOR branch.
IsCborBlob(extraData) == Len(extraData) > 0 /\ extraData[1] = CborMapTag16

ReportDecoded(d) ==
    IF d.ok THEN RoutingOfObject(d.obj)
    ELSE [NoRouting EXCEPT !.format = "structureOnly"]

\* The inner try block that reports the routing data of the EXTRA payload.
\* When cbor-js throws, the second decoder is run through a child process in
\* a directory of the development machine and rejects the same data, which
\* leaves the blob reported by its structure only.
DecodeExtra(extraData) ==
    IF IsCborBlob(extraData) THEN ReportDecoded(CborDecode(extraData))
    ELSE IF Len(extraData) >= LegacyMinLen THEN LegacyRouting(extraData)
    ELSE [NoRouting EXCEPT !.format = "tooShort"]

\* TextDecoder.decode: UTF-8 with code points below 0x800; a byte that does
\* not start or continue such a character becomes U+FFFD.  A continuation
\* byte is used up exactly when the byte before it is a two-byte lead.
Utf8Decode(b) ==
    LET lead(i) == b[i] >= 194 /\ b[i] < 224
        cont(i) == b[i] >= 128 /\ b[i] < 192
    IN  Flatten([i \in 1..Len(b) |->
                    IF i > 1 /\ lead(i - 1) /\ cont(i) THEN <<>>
                    ELSE IF b[i] < 128 THEN <<b[i]>>
                    ELSE IF lead(i) /\ i < Len(b) /\ cont(i + 1)
                         THEN <<(b[i] - 192) * 64 + (b[i + 1] - 128)>>
                    ELSE <<65533>>])

\* ---- JSON.parse, for texts without white space made of objects, strings
\* ---- (escapes \", \\ and \/) and unsigned integers.  Each scanner gives the
\* ---- offset after the value it accepts, -1 when it rejects.
\* The number of backslashes that end right before offset q, not reaching
\* below offset p.
BackslashRun(t, p, q) ==
    LET ks == {k \in 0..(q - p) : \A j \in 1..k : t[q - j + 1] = 92}
    IN  CHOOSE k \in ks : \A m \in ks : m <= k

\* p is the offset after the opening quote.
JsonStringEnd(t, p) ==
    LET closing == {q \in p..(Len(t) - 1) :
                       t[q + 1] = 34 /\ BackslashRun(t, p, q) % 2 = 0}
    IN  IF closing = {} THEN -1
        ELSE LET q == MinOf(closing)
             IN  IF \A i \in p..(q - 1) :
                        /\ t[i + 1] >= 32
                        /\ (t[i + 1] = 92 /\ BackslashRun(t, p, i) % 2 = 0)
                               => t[i + 2] \in {34, 92, 47}
                 THEN q + 1 ELSE -1

JsonDigitsEnd(t, p) ==
    MinOf({q \in p..Len(t) : q = Len(t) \/ t[q + 1] < 48 \/ t[q + 1] > 57})

RECURSIVE JsonValueEnd(_, _), JsonMembersEnd(_, _)
JsonValueEnd(t, p) ==
    IF p >= Len(t) THEN -1
    ELSE IF t[p + 1] = 34 THEN JsonStringEnd(t, p + 1)
    ELSE IF t[p + 1] = 48 THEN p + 1
    ELSE IF t[p + 1] >= 49 /\ t[p + 1] <= 57 THEN JsonDigitsEnd(t, p + 1)
    ELSE IF t[p + 1] = 123
         THEN IF p + 1 < Len(t) /\ t[p + 2] = 125 THEN p + 2
              ELSE JsonMembersEnd(t, p + 1)
    ELSE -1

\* "key":value pairs separated by commas and closed by a brace.
JsonMembersEnd(t, p) ==
    IF p >= Len(t) \/ t[p + 1] # 34 THEN -1
    ELSE LET k == JsonStringEnd(t, p + 1)
         IN  IF k < 0 \/ k >= Len(t) \/ t[k + 1] # 58 THEN -1
             ELSE LET v == JsonValueEnd(t, k + 1)
                  IN  IF v < 0 \/ v >= Len(t) THEN -1
                      ELSE IF t[v + 1] = 125 THEN v + 1
                      ELSE IF t[v + 1] = 44 THEN JsonMembersEnd(t, v + 1)
                      ELSE -1

JsonParses(t) == JsonValueEnd(t, 0) = Len(t)

NoContent == [state |-> "none", text |-> <<>>, json |-> FALSE]

\* ------------------------------------------------------------ the inputs
TestKeyX == [i \in 1..32 |-> i]
\* An x-only key whose bytes spell the tag, an OP_1 and a 2-byte push.
TagKeyX  == Kasplex \o <<OP_1, 2>> \o [i \in 1..23 |-> i]

PublicKeys == { <<2>> \o TestKeyX, TestKeyX, TagKeyX, <<4>> \o TestKeyX, NULL,
                SubSeq(TestKeyX, 1, 31), <<2>> \o TestKeyX \o <<33>> }

\* 0, 1, the boundaries of the integer encodings, 202555, 2^32 - 1, 2^32,
\* -1 and 1.5.
ChainIds == { Small(0), Small(1), Small(23), Small(24), Small(255), Small(256),
              Small(65535), Small(65536), Small(202555), U(65535, 65535),
              U(65536, 0), MinusOne, OneAndHalf }

Addr20 == <<174, 243, 62, 118, 151, 44, 8, 184, 172, 25,
            34, 28, 182, 231, 210, 250, 64, 84, 175, 67>>

HexDigits(bytes) == SubSeq(bytesToHex(bytes), 3, 2 * Len(bytes) + 2)

L2Addresses == { bytesToHex(Addr20),
                 bytesToHex(SubSeq(Addr20, 1, 19)),
                 bytesToHex(Addr20 \o <<1>>),
                 SubSeq(HexDigits(Addr20), 1, 39),
                 <<>> }

Sig64 == [i \in 1..64 |-> <<18, 52, 86, 120, 144, 171, 205, 239>>[((i - 1) % 8) + 1]]

Signatures == { bytesToHex(Sig64),
                HexDigits(SubSeq(Sig64, 1, 63)),
                bytesToHex(Sig64 \o <<7>>),
                <<>> }

NoToken == [present |-> FALSE, mode |-> "none", tick |-> NULL, ca |-> NULL]

Tokens == { [present |-> TRUE, mode |-> "mint", tick |-> <<78, 65, 67, 72, 79>>, ca |-> NULL],
            [present |-> TRUE, mode |-> "issue", tick |-> NULL, ca |-> <<97, 98, 49, 50>>],
            [present |-> TRUE, mode |-> "issue", tick |-> <<78, 65, 67, 72, 79>>, ca |-> NULL],
            NoToken }

Amounts == { 0, 1, 100000000 }

\* "kaspa:" followed by n letters q.
KaspaAddr(n) == <<107, 97, 115, 112, 97, 58>> \o Rep(113, n)

Destinations == { KaspaAddr(n) : n \in {6, 7, 61, 186, 187, 400} }
                \cup { <<>>, <<107, 34, 233, 92>> }

NoParams == [publicKey |-> NULL, chainId |-> UNDEFN, l2Address |-> NULL,
             signatureRS |-> NULL, token |-> NoToken, amount |-> UNDEF, to |-> NULL]

NoBuilt == [ok |-> FALSE, err |-> "none", script |-> <<>>, extra |-> <<>>,
            content |-> <<>>, suffix |-> <<>>]

\* The hex digits of the sample script of the usage message and the README.
SampleHex ==
    << 4, 1, 1, 5, 10, 7, 10, 3, 1, 3, 8, 15, 13, 13, 13, 4, 6, 1, 12, 8,
       1, 9, 3, 9, 10, 1, 1, 6, 13, 1, 15, 6, 5, 6, 12, 11, 5, 3, 14, 8, 5,
       15, 8, 15, 9, 10, 14, 4, 2, 10, 8, 2, 9, 1, 3, 5, 7, 13, 15, 15, 10,
       12, 12, 3, 2, 15, 15, 11, 5, 4, 15, 14, 10, 5, 0, 4, 13, 3, 4, 10,
       6, 11, 12, 6, 7, 6, 0, 15, 3, 1, 6, 13, 10, 0, 9, 2, 15, 4, 9, 14,
       8, 9, 5, 2, 0, 0, 12, 6, 3, 0, 2, 3, 3, 12, 4, 5, 9, 4, 15, 13, 1,
       5, 8, 3, 5, 0, 3, 12, 0, 1, 4, 12, 13, 15, 2, 0, 1, 14, 8, 3, 1, 3,
       6, 9, 0, 13, 14, 12, 9, 11, 3, 0, 2, 9, 11, 10, 5, 11, 0, 10, 13, 2,
       7, 3, 7, 7, 5, 10, 12, 12, 15, 10, 7, 10, 2, 11, 11, 7, 9, 10, 1,
       13, 13, 2, 15, 14, 7, 11, 8, 6, 15, 1, 11, 3, 9, 6, 2, 10, 12, 0, 0,
       6, 3, 0, 7, 6, 11, 6, 1, 7, 3, 7, 0, 6, 12, 6, 5, 7, 8, 5, 1, 1, 13,
       0, 1, 10, 7, 3, 6, 10, 10, 0, 0, 0, 1, 0, 0, 0, 0, 0, 0, 7, 4, 2,
       13, 3, 5, 12, 12, 6, 6, 3, 9, 12, 2, 5, 3, 2, 10, 7, 8, 4, 4, 4, 11,
       5, 13, 4, 15, 7, 1, 12, 8, 11, 14, 6, 14, 5, 6, 7, 8, 0, 0, 6, 8, 15 >>

\* Hand-made scripts are put together from one choice per slot.
Legacy30 == <<1, 167, 54, 170, 0, 1, 0, 0, 0,
              116, 45, 53, 204, 102, 57, 194, 83, 42, 120,
              68, 75, 93, 79, 113, 200, 190, 110, 86, 120, 255>>
SmallMap == <<CborMapTag16, 0, 1, 97, 118, 1>>
JsonText == <<123, 34, 112, 34, 58, 49, 125>>

Pushes == { <<30>> \o Legacy30,
            <<OP_PUSHDATA1, 30>> \o Legacy30,
            <<OP_PUSHDATA2, 30, 0>> \o Legacy30,
            <<6>> \o SmallMap,
            <<2, CborMapTag16, 0>>,
            <<30, CborMapTag16>> \o Tail(Legacy30),
            <<2, 81, 81>>,
            <<7>> \o JsonText,
            <<OP_PUSHDATA2, 7, 0>> \o JsonText,
            <<0>>,
            <<78>>,
            <<OP_PUSHDATA1>>,
            <<OP_PUSHDATA2, 2>>,
            <<5, 1, 2>>,
            <<>> }

\* The choices for the slots of a hand-made script: bytes in front, the tag,
\* the EXTRA marker, the EXTRA push, the CONTENT marker, the CONTENT push
\* and the terminator.
Slots ==
    << { Rep(65, n) : n \in 0..MaxJunk },
       { Kasplex, SubSeq(Kasplex, 1, 6), <<>> },
       { <<OP_1>>, <<51, OP_1>>, <<>> },
       Pushes,
       { <<OP_FALSE>>, <<>> },
       Pushes,
       { <<OP_ENDIF>>, <<>> } >>

NumSlots == Len(Slots)

SlotChoices(k) == Slots[k]

\* burnTokens before it is called.  calls are the client requests started,
\* done the ones that succeeded, ret the kind of object returned.
NoBurn == [key |-> "none", fee |-> "none", calls |-> <<>>, done |-> <<>>,
           hash |-> "none", receipt |-> "none", ret |-> "none", error |-> "none"]

\* BigInt(burnFee) throws a RangeError for a number that is not an integer.
BigIntThrows(fee) == fee = "fraction"

\* ------------------------------------------------------------------- state
VARIABLES
    lib,          \* TRUE when require('cbor-x') succeeded at load time
    pc,           \* where the run is
    params,       \* the argument of generateBridgeScript
    built,        \* its result
    slot,         \* the next slot of a hand-made script
    scriptHex,    \* the --script argument
    scriptBytes, pos, kasplexPos, extraData, routing, content,
    perr,         \* the message of the error the parser's catch block printed
    probe,        \* <<n, prefix>> of the length-codec probe
    burn          \* the run of burnTokens: options, calls made, result

vars == <<lib, pc, params, built, slot, scriptHex, scriptBytes, pos, kasplexPos,
          extraData, routing, content, perr, probe, burn>>

parserVars == <<scriptBytes, pos, kasplexPos, extraData, routing, content, perr>>

Init ==
    /\ lib \in BOOLEAN
    /\ pc = "idle"
    /\ params = NoParams
    /\ built = NoBuilt
    /\ slot = 1
    /\ scriptHex = <<>>
    /\ scriptBytes = <<>>
    /\ pos = 0
    /\ kasplexPos = -1
    /\ extraData = <<>>
    /\ routing = NoRouting
    /\ content = NoContent
    /\ perr = "none"
    /\ probe = [n |-> 0, lane |-> "none", prefix |-> Fail("none"), decoded |-> NoLength("none")]
    /\ burn = NoBurn

\* ----------------------------------------------------------------- builder
\* One call of generateBridgeScript.  With the library encoder the chain id
\* is kept to the non-negative integers below 2^32.
Generate ==
    /\ pc = "idle"
    /\ \E k \in PublicKeys, c \in ChainIds, a \in L2Addresses, g \in Signatures,
          t \in Tokens, m \in Amounts, d \in Destinations :
          /\ lib => IsUint32(c)
          /\ params' = [publicKey |-> k, chainId |-> c, l2Address |-> a,
                        signatureRS |-> g, token |-> t, amount |-> m, to |-> d]
    /\ built' = generateBridgeScript(lib, params')
    /\ pc' = "built"
    /\ UNCHANGED <<burn, lib, slot, scriptHex, parserVars, probe>>

\* The printed script hex is handed to the parser, with or without the
\* leading 0x that bytesToHex writes.
SubmitBuilt ==
    /\ pc = "built"
    /\ built.ok
    /\ \E withPrefix \in BOOLEAN :
          scriptHex' = IF withPrefix THEN bytesToHex(built.script)
                       ELSE HexDigits(built.script)
    /\ pc' = "start"
    /\ UNCHANGED <<burn, lib, params, built, slot, parserVars, probe>>

\* The parser is run on the sample script.
SubmitSample ==
    /\ pc = "idle"
    /\ scriptHex' = SampleHex
    /\ pc' = "start"
    /\ UNCHANGED <<burn, lib, params, built, slot, parserVars, probe>>

\* A hand-made script grows by the choice for its next slot.
Craft ==
    /\ pc \in {"idle", "craft"}
    /\ slot <= NumSlots
    /\ \E f \in SlotChoices(slot) : scriptHex' = scriptHex \o HexDigits(f)
    /\ slot' = slot + 1
    /\ pc' = IF slot = NumSlots THEN "start" ELSE "craft"
    /\ UNCHANGED <<burn, lib, params, built, parserVars, probe>>

\* The push framing of buildEnvelopeSuffix applied to a payload of n bytes,
\* and the parser's length decoding applied to the framed payload.
Probe ==
    /\ pc = "idle"
    /\ \E n \in (0..MaxProbeLen) \cup {65535, 65536}, lane \in {"extra", "content"} :
          \* an empty extra is left out of the envelope and never framed
          /\ lane = "extra" => n > 0
          /\ LET payload == Rep(0, n)
                 prefix == PushPrefix(n, IF lane = "extra" THEN "Extra data too large"
                                         ELSE "Content too large")
             IN  probe' = [n |-> n, lane |-> lane, prefix |-> prefix,
                        decoded |-> IF ~prefix.ok THEN NoLength("none")
                                    ELSE IF lane = "extra"
                                    THEN ExtraPushLength(prefix.val \o payload, 0)
                                    ELSE ContentPushLength(prefix.val \o payload, 0)]
    /\ pc' = "probed"
    /\ UNCHANGED <<burn, lib, params, built, slot, scriptHex, parserVars>>

\* -------------------------------------------------------------- burnTokens
\* A call with an options object: the private key is one that
\* privateKeyToAccount accepts or not, the fee is left out, an integer or a
\* fraction.
BurnCall ==
    /\ pc = "idle"
    /\ \E k \in {"valid", "invalid"}, f \in {"default", "integer", "fraction"} :
          burn' = [NoBurn EXCEPT !.key = k, !.fee = f]
    /\ pc' = "burnClients"
    /\ UNCHANGED <<lib, params, built, slot, scriptHex, parserVars, probe>>

\* The catch block: the error message is returned in a failure object.
BurnCatch(msg) ==
    /\ burn' = [burn EXCEPT !.ret = "failure", !.error = msg]
    /\ pc' = "burnDone"

\* Line 53: createClients.
CreateClients ==
    /\ pc = "burnClients"
    /\ IF burn.key = "invalid"
       THEN BurnCatch("invalid private key")
       ELSE pc' = "burnEstimate" /\ UNCHANGED burn
    /\ UNCHANGED <<lib, params, built, slot, scriptHex, parserVars, probe>>

\* A gas estimation whose failure is not noticed.
EstimateGasUnchecked ==
    /\ pc = "burnEstimate"
    /\ \E succeeds \in BOOLEAN :
          burn' = [burn EXCEPT !.calls = Append(@, "estimate"),
                               !.done = IF succeeds THEN Append(@, "estimate") ELSE @]
    /\ pc' = "burnWrite"
    /\ UNCHANGED <<lib, params, built, slot, scriptHex, parserVars, probe>>

\* Lines 57-64: the arguments are evaluated, then the estimate is awaited.
EstimateGas ==
    /\ pc = "burnEstimate"
    /\ IF BigIntThrows(burn.fee)
       THEN BurnCatch("not an integer")
       ELSE \E succeeds \in BOOLEAN :
               IF succeeds
               THEN /\ burn' = [burn EXCEPT !.calls = Append(@, "estimate"),
                                            !.done = Append(@, "estimate")]
                    /\ pc' = "burnWrite"
               ELSE /\ burn' = [burn EXCEPT !.calls = Append(@, "estimate"),
                                            !.ret = "failure",
                                            !.error = "estimate failed"]
                    /\ pc' = "burnDone"
    /\ UNCHANGED <<lib, params, built, slot, scriptHex, parserVars, probe>>

\* Lines 67-77.
WriteContract ==
    /\ pc = "burnWrite"
    /\ \E succeeds \in BOOLEAN :
          IF succeeds
          THEN /\ burn' = [burn EXCEPT !.calls = Append(@, "write"),
                                       !.done = Append(@, "write"),
                                       !.hash = "0xhash"]
               /\ pc' = "burnWait"
          ELSE /\ burn' = [burn EXCEPT !.calls = Append(@, "write"),
                                       !.ret = "failure",
                                       !.error = "write failed"]
               /\ pc' = "burnDone"
    /\ UNCHANGED <<lib, params, built, slot, scriptHex, parserVars, probe>>

\* Line 79: the receipt wait resolves with a receipt, with or without the
\* gasUsed field, or rejects.
WaitReceipt ==
    /\ pc = "burnWait"
    /\ \E outcome \in {"complete", "noGasUsed", "rejected"} :
          IF outcome # "rejected"
          THEN /\ burn' = [burn EXCEPT !.calls = Append(@, "receipt"),
                                       !.done = Append(@, "receipt"),
                                       !.receipt = outcome]
               /\ pc' = "burnReport"
          ELSE /\ burn' = [burn EXCEPT !.calls = Append(@, "receipt"),
                                       !.ret = "failure",
                                       !.error = "receipt wait failed"]
               /\ pc' = "burnDone"
    /\ UNCHANGED <<lib, params, built, slot, scriptHex, parserVars, probe>>

\* Lines 80-83: the receipt is printed and the success object returned.
ReturnReceipt ==
    /\ pc = "burnReport"
    /\ IF burn.receipt = "noGasUsed"
       THEN BurnCatch("Cannot read properties of null")
       ELSE /\ burn' = [burn EXCEPT !.ret = "success"]
            /\ pc' = "burnDone"
    /\ UNCHANGED <<lib, params, built, slot, scriptHex, parserVars, probe>>

\* ------------------------------------------------------------------ parser
Throw(msg) ==
    /\ perr' = msg
    /\ pc' = "error"

\* minimist hands args.script over as a Number when the argument looks like
\* one: decimal digits, decimal digits with an exponent, or 0x and hex digits
\* (line 20).  Hex digits are the values 0..15 and XCH is the letter x.
IsNumberArg(hex) ==
    \/ hex # <<>> /\ \A i \in 1..Len(hex) : hex[i] <= 9
    \/ Len(hex) > 2 /\ hex[1] = 0 /\ hex[2] = XCH
             /\ \A i \in 3..Len(hex) : hex[i] <= 15
    \/ \E k \in 2..(Len(hex) - 1) :
             /\ hex[k] = 14
             /\ \A i \in (1..Len(hex)) \ {k} : hex[i] <= 9

\* The Number is falsy when it is zero (line 23).
NumberArgIsZero(hex) ==
    IF Len(hex) > 2 /\ hex[2] = XCH
    THEN \A i \in 3..Len(hex) : hex[i] = 0
    ELSE \A i \in 1..Len(hex) : hex[i] = 0 \/ \E k \in 2..i : hex[k] = 14

\* Lines 20-37: the usage exit on a falsy argument, the TypeError of match on a
\* Number (caught at line 292), else the hex conversion.
Start ==
    /\ pc = "start"
    /\ IF scriptHex = <<>> \/ (IsNumberArg(scriptHex) /\ NumberArgIsZero(scriptHex))
       THEN /\ pc' = "usage"
            /\ UNCHANGED <<scriptBytes, perr>>
       ELSE IF IsNumberArg(scriptHex)
       THEN /\ pc' = "error"
            /\ perr' = "scriptHex.match is not a function"
            /\ UNCHANGED scriptBytes
       ELSE /\ scriptBytes' = ScriptBytesOfHex(scriptHex)
            /\ pc' = "marker"
            /\ UNCHANGED perr
    /\ UNCHANGED <<burn, lib, params, built, slot, scriptHex, pos, kasplexPos, extraData,
                   routing, content, probe>>

\* Lines 39-64.
FindMarker ==
    /\ pc = "marker"
    /\ kasplexPos' = FindKasplex(scriptBytes)
    /\ IF kasplexPos' = -1
       THEN /\ Throw("Kasplex envelope not found in signature script")
            /\ UNCHANGED pos
       ELSE /\ pos' = kasplexPos' + Len(Kasplex)
            /\ pc' = "extraMarker"
            /\ UNCHANGED perr
    /\ UNCHANGED <<burn, lib, params, built, slot, scriptHex, scriptBytes, extraData,
                   routing, content, probe>>

\* Lines 66-76.
FindExtraMarker ==
    /\ pc = "extraMarker"
    /\ LET p == ScanFor(scriptBytes, pos, OP_1)
       IN  IF p >= Len(scriptBytes)
           THEN /\ Throw("EXTRA marker (0x51) not found")
                /\ pos' = p
           ELSE /\ pos' = p + 1
                /\ pc' = "extraLen"
                /\ UNCHANGED perr
    /\ UNCHANGED <<burn, lib, params, built, slot, scriptHex, scriptBytes, kasplexPos,
                   extraData, routing, content, probe>>

\* A lane read that slices the EXTRA payload without the boundary test of
\* line 106.
ReadExtraUnchecked ==
    /\ pc = "extraLen"
    /\ IF pos >= Len(scriptBytes)
       THEN /\ Throw("Unexpected end of script")
            /\ UNCHANGED <<pos, extraData>>
       ELSE LET d == ExtraPushLength(scriptBytes, pos)
            IN  IF ~d.ok
                THEN /\ Throw(d.err)
                     /\ pos' = pos + 1
                     /\ UNCHANGED extraData
                ELSE /\ extraData' = SliceJS(scriptBytes, d.pos, d.pos + d.len)
                     /\ pos' = d.pos + d.len
                     /\ pc' = "extraDecode"
                     /\ UNCHANGED perr
    /\ UNCHANGED <<burn, lib, params, built, slot, scriptHex, scriptBytes, kasplexPos,
                   routing, content, probe>>

\* Lines 78-114.
ReadExtra ==
    /\ pc = "extraLen"
    /\ IF pos >= Len(scriptBytes)
       THEN /\ Throw("Unexpected end of script")
            /\ UNCHANGED <<pos, extraData>>
       ELSE LET d == ExtraPushLength(scriptBytes, pos)
            IN  IF ~d.ok
                THEN /\ Throw(d.err)
                     /\ pos' = pos + 1
                     /\ UNCHANGED extraData
                ELSE IF d.pos + d.len > Len(scriptBytes)
                THEN /\ Throw("EXTRA data extends beyond script boundary")
                     /\ pos' = d.pos
                     /\ UNCHANGED extraData
                ELSE /\ extraData' = SliceJS(scriptBytes, d.pos, d.pos + d.len)
                     /\ pos' = d.pos + d.len
                     /\ pc' = "extraDecode"
                     /\ UNCHANGED perr
    /\ UNCHANGED <<burn, lib, params, built, slot, scriptHex, scriptBytes, kasplexPos,
                   routing, content, probe>>

\* A decode step that gives the parse up when the payload is undecodable.
ReportExtraStrict ==
    /\ pc = "extraDecode"
    /\ routing' = DecodeExtra(extraData)
    /\ IF routing'.format \in {"current", "legacy"}
       THEN pc' = "contentMarker" /\ UNCHANGED perr
       ELSE Throw("Error parsing bridge data")
    /\ UNCHANGED <<burn, lib, params, built, slot, scriptHex, scriptBytes, pos, kasplexPos,
                   extraData, content, probe>>

\* Lines 123-218.
ReportExtra ==
    /\ pc = "extraDecode"
    /\ routing' = DecodeExtra(extraData)
    /\ pc' = "contentMarker"
    /\ UNCHANGED <<burn, lib, params, built, slot, scriptHex, scriptBytes, pos, kasplexPos,
                   extraData, content, perr, probe>>

\* A marker scan that treats a missing CONTENT marker as the EXTRA one.
FindContentMarkerStrict ==
    /\ pc = "contentMarker"
    /\ LET p == ScanFor(scriptBytes, pos, OP_FALSE)
       IN  IF p >= Len(scriptBytes)
           THEN /\ pos' = p
                /\ Throw("CONTENT marker (0x00) not found")
           ELSE /\ pos' = p + 1
                /\ pc' = "contentLen"
                /\ UNCHANGED perr
    /\ UNCHANGED <<burn, lib, params, built, slot, scriptHex, scriptBytes, kasplexPos,
                   extraData, routing, content, probe>>

\* Lines 220-229.
FindContentMarker ==
    /\ pc = "contentMarker"
    /\ LET p == ScanFor(scriptBytes, pos, OP_FALSE)
       IN  IF p >= Len(scriptBytes)
           THEN /\ pos' = p
                /\ content' = [NoContent EXCEPT !.state = "absent"]
                /\ pc' = "complete"
           ELSE /\ pos' = p + 1
                /\ UNCHANGED content
                /\ pc' = "contentLen"
    /\ UNCHANGED <<burn, lib, params, built, slot, scriptHex, scriptBytes, kasplexPos,
                   extraData, routing, perr, probe>>

\* Lines 231-290.
ReadContent ==
    /\ pc = "contentLen"
    /\ IF pos >= Len(scriptBytes)
       THEN /\ content' = [NoContent EXCEPT !.state = "markerOnly"]
            /\ pc' = "complete"
            /\ UNCHANGED <<pos, perr>>
       ELSE LET d == ContentPushLength(scriptBytes, pos)
            IN  IF ~d.ok
                THEN /\ Throw(d.err)
                     /\ pos' = pos + 1
                     /\ UNCHANGED content
                ELSE /\ pos' = d.pos
                     /\ pc' = "complete"
                     /\ UNCHANGED perr
                     /\ IF d.pos + d.len <= Len(scriptBytes)
                        THEN LET contentJson ==
                                     Utf8Decode(SliceJS(scriptBytes, d.pos, d.pos + d.len))
                             IN  content' = [state |-> "text", text |-> contentJson,
                                             json |-> JsonParses(contentJson)]
                        ELSE content' = [NoContent EXCEPT !.state = "outOfBounds"]
    /\ UNCHANGED <<burn, lib, params, built, slot, scriptHex, scriptBytes, kasplexPos,
                   extraData, routing, probe>>

\* The exit status of the parser process once it has ended: process.exit(1)
\* on a missing --script argument; the catch block prints the error and
\* returns, so the process ends as it does after the completion message.
Running == UNDEF

ExitStatus ==
    IF pc = "usage" THEN 1
    ELSE IF pc \in {"complete", "error"} THEN 0
    ELSE Running

Next ==
    \/ Generate
    \/ SubmitBuilt
    \/ SubmitSample
    \/ Craft
    \/ Probe
    \/ BurnCall
    \/ CreateClients
    \/ EstimateGas
    \/ WriteContract
    \/ WaitReceipt
    \/ ReturnReceipt
    \/ Start
    \/ FindMarker
    \/ FindExtraMarker
    \/ ReadExtra
    \/ ReportExtra
    \/ FindContentMarker
    \/ ReadContent

Spec == Init /\ [][Next]_vars

\* ------------------------------------------------------------- properties
\* The parse of a script that generateBridgeScript returned has ended.
ParsedBuilt == built.ok /\ pc \in {"complete", "error"}

\* C1: round trip.  When the parser has run on a script the generator
\* returned, the parse succeeded, the routing data is reported in the
\* current format with version 1 and the chain id, L2 address and signature
\* of the input, and the content text is the text the generator embedded.
RoundTrip ==
    ParsedBuilt =>
        /\ pc = "complete"
        /\ routing.format = "current"
        /\ routing.version = Small(1)
        /\ routing.chainId = params.chainId
        /\ routing.l2 = hexToBytes(params.l2Address).val
        /\ routing.sig = hexToBytes(params.signatureRS).val
        /\ content.state = "text"
        /\ content.text = built.content

\* The round trip with the library encoder and a key that does not spell
\* the tag.
RoundTripLibrary ==
    (lib /\ params.publicKey # TagKeyX /\ ~IsNumberArg(scriptHex)) => RoundTrip

RoundTripLibraryDone ==
    ParsedBuilt /\ lib /\ routing.format = "current" /\ content.json

\* The sizes the wire format gives a push prefix and an envelope.
PrefixLen(n) == IF n <= 75 THEN 1 ELSE IF n <= 255 THEN 2 ELSE 3

AssembledRedeemLen(ec) ==
    1 + 32 + 1 + 3 + 7
    + (IF Len(ec[1]) > 0 THEN 1 + PrefixLen(Len(ec[1])) + Len(ec[1]) ELSE 0)
    + 1 + PrefixLen(Len(Utf8Encode(ec[2]))) + Len(Utf8Encode(ec[2])) + 1

OverCeiling(ec) == ec.ok /\ AssembledRedeemLen(ec.val) > 520

\* C2: size ceiling.  A script the generator returns, and the envelope in
\* it, is at most 520 bytes long; a failed call returns no script; and a
\* call whose extra and content assemble to more than 520 bytes fails.
SizeCeiling ==
    /\ built.ok => Len(built.script) <= 520 /\ Len(built.suffix) <= 520
    /\ ~built.ok => built.script = <<>>
    /\ (params # NoParams /\ OverCeiling(buildOptimalExtraAndContent(lib, params)))
           => ~built.ok /\ built.err # "none"

SizeCeilingRefused ==
    /\ pc = "built"
    /\ ~built.ok
    /\ built.err = "Content too large"
    /\ OverCeiling(buildOptimalExtraAndContent(lib, params))

Contains(hay, needle) ==
    \E i \in 0..(Len(hay) - Len(needle)) : SubSeq(hay, i + 1, i + Len(needle)) = needle

FieldsEnforced(l2, sig) ==
    /\ (~l2.ok \/ ~sig.ok \/ Len(l2.val) # 20 \/ Len(sig.val) # 64)
           => ~built.ok /\ built.script = <<>> /\ built.err # "none"
    /\ built.ok => Contains(built.extra, l2.val) /\ Contains(built.extra, sig.val)

\* C3: field lengths.  A call whose l2Address does not decode to 20 bytes
\* or whose signatureRS does not decode to 64 bytes fails and returns no
\* script; a returned script carries the decoded bytes as they are.
FieldLengthEnforcement ==
    params # NoParams =>
        FieldsEnforced(hexToBytes(params.l2Address), hexToBytes(params.signatureRS))

ShortAddressRefused ==
    /\ pc = "built"
    /\ Len(hexToBytes(params.l2Address).val) = 19
    /\ Len(hexToBytes(params.signatureRS).val) = 64
    /\ built.err = "address must be 20 bytes"
    /\ built.script = <<>>

BoundaryLengths == {0, 1, 75, 76, 255, 256, 65535}

\* C4: length codec.  A payload of each boundary length is framed by the
\* builder and the parser decodes the framing back to that length; a length
\* from 256 to 65535 is framed as 0x4d and two little-endian bytes; a
\* payload of 65536 bytes is refused.
LengthCodecBoundary ==
    pc = "probed" =>
        /\ probe.n \in BoundaryLengths =>
               probe.prefix.ok /\ probe.decoded.ok /\ probe.decoded.len = probe.n
        /\ (probe.n >= 256 /\ probe.n <= 65535) =>
               /\ probe.prefix.ok
               /\ probe.prefix.val = <<77, probe.n % 256, probe.n \div 256>>
        /\ probe.n = 65536 => ~probe.prefix.ok

\* The part of the length codec below 256, and the refusal of 65536.
LengthCodecOneByte ==
    pc = "probed" =>
        /\ probe.n <= 255 =>
               probe.prefix.ok /\ probe.decoded.ok /\ probe.decoded.len = probe.n
        /\ probe.n = 65536 => ~probe.prefix.ok

\* The push-length rule as stated: the length and the offset of the first
\* payload byte for the length byte at offset p, or a failure when a length
\* byte is missing, the opcode is none of the three, or the payload would
\* end past the end of the script.
ClaimedWithin(bytes, len, start) ==
    IF start + len > Len(bytes) THEN NoLength("past the end") ELSE Length(len, start)

ClaimedPush(bytes, p) ==
    IF p >= Len(bytes) THEN NoLength("no length byte")
    ELSE IF bytes[p + 1] <= 75 THEN ClaimedWithin(bytes, bytes[p + 1], p + 1)
    ELSE IF bytes[p + 1] = 76
         THEN IF p + 1 >= Len(bytes) THEN NoLength("no length byte")
              ELSE ClaimedWithin(bytes, bytes[p + 2], p + 2)
    ELSE IF bytes[p + 1] = 77
         THEN IF p + 2 >= Len(bytes) THEN NoLength("no length bytes")
              ELSE ClaimedWithin(bytes, bytes[p + 2] + 256 * bytes[p + 3], p + 3)
    ELSE NoLength("no push opcode")

ParseEnded == pc \in {"complete", "error"}

\* The offset of the EXTRA marker, Len(scriptBytes) when there is none.
ExtraMarkerAt == ScanFor(scriptBytes, kasplexPos + Len(Kasplex), 81)

ExtraLaneAs(d) ==
    IF d.ok THEN extraData = SubSeq(scriptBytes, d.pos + 1, d.pos + d.len)
    ELSE pc = "error" /\ extraData = <<>>

ExtraLaneRule ==
    (ParseEnded /\ kasplexPos >= 0 /\ ExtraMarkerAt < Len(scriptBytes)) =>
        ExtraLaneAs(ClaimedPush(scriptBytes, ExtraMarkerAt + 1))

ContentLaneAs(d) ==
    IF d.ok
    THEN /\ pc = "complete"
         /\ content.state = "text"
         /\ content.text = Utf8Decode(SubSeq(scriptBytes, d.pos + 1, d.pos + d.len))
    ELSE pc = "error" /\ content.state = "none"

ContentLaneFrom(e) ==
    (e.ok /\ ScanFor(scriptBytes, e.pos + e.len, 0) < Len(scriptBytes)) =>
        ContentLaneAs(ClaimedPush(scriptBytes, ScanFor(scriptBytes, e.pos + e.len, 0) + 1))

ContentLaneRule ==
    (ParseEnded /\ kasplexPos >= 0 /\ ExtraMarkerAt < Len(scriptBytes)) =>
        ContentLaneFrom(ClaimedPush(scriptBytes, ExtraMarkerAt + 1))

\* C5: push-length decoding.  In both lanes the payload is the bytes the
\* push-length rule gives, and the parse ends in an error when a length
\* byte is missing, the opcode is not a push, or the declared length runs
\* past the end of the script.
PushLengthRule == ExtraLaneRule /\ ContentLaneRule

TagOffsets(bytes) ==
    {i \in 0..(Len(bytes) - 7) : SubSeq(bytes, i + 1, i + 7) = Kasplex}

\* C6: marker search.  Past the search, the tag was found at its first
\* offset in the script, an offset that ends at the last byte included, and
\* the parse failed with the not-found error only if the script holds no tag.
MarkerSearch ==
    pc \in {"extraMarker", "extraLen", "extraDecode", "contentMarker", "contentLen",
            "complete", "error"} =>
        IF TagOffsets(scriptBytes) = {}
        THEN pc = "error" /\ perr = "Kasplex envelope not found in signature script"
        ELSE /\ kasplexPos = MinOf(TagOffsets(scriptBytes))
             /\ perr # "Kasplex envelope not found in signature script"

\* The search over the offsets where the tag does not end at the last byte.
MarkerSearchInner ==
    (/\ pc \in {"extraMarker", "extraLen", "extraDecode", "contentMarker", "contentLen",
                "complete", "error"}
     /\ ~IsNumberArg(scriptHex)) =>
        IF TagOffsets(SubSeq(scriptBytes, 1, Len(scriptBytes) - 1)) = {}
        THEN pc = "error" /\ perr = "Kasplex envelope not found in signature script"
        ELSE kasplexPos = MinOf(TagOffsets(scriptBytes))

\* The push prefix of the wire format and the key bytes the script carries.
ClaimedPrefix(n) ==
    IF n <= 75 THEN <<n>>
    ELSE IF n <= 255 THEN <<76, n>>
    ELSE <<77, n % 256, n \div 256>>

XOnlyOf(key) == IF Len(key) = 33 THEN SubSeq(key, 2, 33) ELSE key

LaidOut(key, extra, contentBytes) ==
    <<32>> \o XOnlyOf(key) \o <<172, 0, 99, 7>>
    \o <<107, 97, 115, 112, 108, 101, 120>>
    \o <<81>> \o ClaimedPrefix(Len(extra)) \o extra
    \o <<0>> \o ClaimedPrefix(Len(contentBytes)) \o contentBytes
    \o <<104>>

\* C7: wire layout.  A script the generator returns is 0x20, the 32-byte
\* x-only key, 0xac, 0x00, 0x63, 0x07, "kasplex", 0x51, the push prefix and
\* the bytes of a non-empty extra, 0x00, the push prefix and the UTF-8 bytes
\* of the content, 0x68.
WireLayout ==
    built.ok =>
        /\ Len(built.extra) > 0
        /\ built.script = LaidOut(params.publicKey, built.extra, Utf8Encode(built.content))

WireLayoutBuilt ==
    /\ pc = "built"
    /\ built.ok
    /\ Len(params.publicKey) = 33
    /\ Len(built.extra) > 75
    /\ Len(built.content) > 75

ExtraReported == pc \in {"contentMarker", "contentLen", "complete"}

\* C8: legacy fallback.  A reported EXTRA payload that is not a map and has
\* at least 29 bytes is decoded as version (byte 0), chain id (bytes 1-4,
\* little-endian), bridge id (bytes 5-8, little-endian) and L2 address
\* (bytes 9-28), whatever follows byte 28; a shorter one is undecodable.
LegacyFallback ==
    (ExtraReported /\ (extraData = <<>> \/ extraData[1] \div 32 # 5)) =>
        IF Len(extraData) >= 29
        THEN /\ routing.format = "legacy"
             /\ routing.version = U(0, extraData[1])
             /\ routing.chainId = U(extraData[5] * 256 + extraData[4],
                                    extraData[3] * 256 + extraData[2])
             /\ routing.bridgeId = U(extraData[9] * 256 + extraData[8],
                                     extraData[7] * 256 + extraData[6])
             /\ routing.l2 = SubSeq(extraData, 10, 29)
        ELSE routing.format = "tooShort" /\ routing.l2 = NULL

LegacyDecoded ==
    /\ pc = "complete"
    /\ Len(extraData) = 30
    /\ routing.format = "legacy"
    /\ routing.version = U(0, 1)
    /\ routing.chainId = U(170, 13991)
    /\ routing.bridgeId = U(0, 1)
    /\ Len(routing.l2) = 20

NoMarkerAfter(e) ==
    e.ok /\ \A p \in (e.pos + e.len)..(Len(scriptBytes) - 1) : scriptBytes[p + 1] # 0

\* C9: partial result.  When the EXTRA lane is well framed and in bounds
\* and no 0x00 byte follows its payload, the parse ends without an error,
\* with the EXTRA payload reported and the content absent.
PartialResult ==
    (ParseEnded /\ kasplexPos >= 0 /\ ExtraMarkerAt < Len(scriptBytes)
       /\ NoMarkerAfter(ClaimedPush(scriptBytes, ExtraMarkerAt + 1))) =>
        /\ pc = "complete"
        /\ perr = "none"
        /\ routing.format # "none"
        /\ content.state = "absent"

RoutingWithoutContent ==
    /\ pc = "complete"
    /\ routing.format = "legacy"
    /\ content.state = "absent"
    /\ scriptBytes[Len(scriptBytes)] = 104

BothLanesAs(e, d) ==
    d.ok =>
        /\ pc = "complete"
        /\ perr = "none"
        /\ extraData = SubSeq(scriptBytes, e.pos + 1, e.pos + e.len)
        /\ routing = DecodeExtra(extraData)
        /\ content.state = "text"
        /\ content.text = Utf8Decode(SubSeq(scriptBytes, d.pos + 1, d.pos + d.len))

BothLanesFrom(e) ==
    (e.ok /\ ScanFor(scriptBytes, e.pos + e.len, 0) < Len(scriptBytes)) =>
        BothLanesAs(e, ClaimedPush(scriptBytes, ScanFor(scriptBytes, e.pos + e.len, 0) + 1))

\* C10: lane independence.  When both lanes are well framed and in bounds,
\* the parse ends without an error, the content text is extracted whether
\* or not the EXTRA payload decodes, and the report on the EXTRA payload
\* stands whether or not the content is JSON.
LaneIndependence ==
    (ParseEnded /\ kasplexPos >= 0 /\ ExtraMarkerAt < Len(scriptBytes)) =>
        BothLanesFrom(ClaimedPush(scriptBytes, ExtraMarkerAt + 1))

BothLanesUndecodable ==
    /\ pc = "complete"
    /\ routing.format \in {"tooShort", "structureOnly"}
    /\ content.state = "text"
    /\ Len(content.text) > 0
    /\ ~content.json

\* The CONTENT length decoded at the byte after the marker at offset c runs
\* past the end of the script.
ContentOverrunsAs(d) == d.ok /\ d.pos + d.len > Len(scriptBytes)

ContentOverrunsAt(c) ==
    /\ c + 1 < Len(scriptBytes)
    /\ ContentOverrunsAs(ContentPushLength(scriptBytes, c + 1))

ContentOverrunsFrom(e) ==
    /\ e.ok
    /\ ContentOverrunsAt(ScanFor(scriptBytes, e.pos + e.len, 0))

ContentOverruns ==
    /\ ParseEnded
    /\ kasplexPos >= 0
    /\ ExtraMarkerAt < Len(scriptBytes)
    /\ ContentOverrunsFrom(ClaimedPush(scriptBytes, ExtraMarkerAt + 1))

\* C11: content bounds.  When the CONTENT marker is found and the decoded
\* content length runs past the end of the script, the parse ends in the
\* error state and not in completion.
ContentBoundsHardFailure ==
    ContentOverruns => pc = "error" /\ perr # "none"

\* The script has no EXTRA marker after the tag and a well-framed CONTENT
\* lane at the first 0x00 after the tag.
ContentOnlyAs(d) ==
    d.ok =>
        /\ pc = "complete"
        /\ perr = "none"
        /\ routing.format = "none"
        /\ content.state = "text"
        /\ content.text = Utf8Decode(SubSeq(scriptBytes, d.pos + 1, d.pos + d.len))

ContentOnlyAt(c) ==
    c < Len(scriptBytes) => ContentOnlyAs(ClaimedPush(scriptBytes, c + 1))

\* C12: optional EXTRA lane.  When the tag was found, no 0x51 byte follows
\* it and a well-framed CONTENT lane starts at the first 0x00 after it, the
\* parse ends without an error, with the content text extracted and no
\* routing data.
ExtraLaneOptional ==
    (ParseEnded /\ kasplexPos >= 0 /\ ExtraMarkerAt >= Len(scriptBytes)) =>
        ContentOnlyAt(ScanFor(scriptBytes, kasplexPos + Len(Kasplex), 0))

\* C13: exit status.  A parse that ended in an unrecoverable error leaves a
\* non-zero exit status, and the exit status is zero only when the parse
\* completed without such an error.
ExitStatusTellsFailure ==
    /\ pc = "error" => ExitStatus # 0
    /\ ExitStatus = 0 => pc = "complete" /\ perr = "none"

\* The usage exit is non-zero and a completed parse exits with zero.
ExitStatusOtherwise ==
    /\ pc = "usage" => ExitStatus = 1
    /\ pc = "complete" => ExitStatus = 0

SampleParsed == scriptHex = SampleHex /\ ParseEnded

\* C14: bundled sample.  The parse of the sample script finds the envelope
\* and reports chain id 167012 and the L2 address
\* 0x742d35cc6639c2532a78444b5d4f71c8be6e5678.
BundledSample ==
    SampleParsed =>
        /\ kasplexPos >= 0
        /\ pc = "complete"
        /\ routing.chainId = U(167012 \div 65536, 167012 % 65536)
        /\ routing.l2 = <<116, 45, 53, 204, 102, 57, 194, 83, 42, 120,
                          68, 75, 93, 79, 113, 200, 190, 110, 86, 120>>

BurnSteps == <<"estimate", "write", "receipt">>

IsPrefix(a, b) == Len(a) <= Len(b) /\ a = SubSeq(b, 1, Len(a))

BurnReturned == pc = "burnDone"

EncoderMapTag ==
    cborEncodeFallback([v |-> Small(1), c |-> Small(1), l |-> Addr20, s |-> Sig64]).val[1]

HasEncoderTag == extraData # <<>> /\ extraData[1] = EncoderMapTag

\* C16: routing-blob classification.  A reported EXTRA payload is taken as
\* the current format only if its first byte is the map-of-4 tag of the
\* repository's encoder, a payload with that tag is decoded as a map, and a
\* payload of at least 29 bytes that is not reported in the current format
\* (wrong tag or failed map decode) is reported through the legacy layout.
RoutingClassification ==
    ExtraReported =>
        /\ routing.format = "current" => HasEncoderTag
        /\ HasEncoderTag => routing.format \in {"current", "structureOnly", "legacy"}
        /\ (HasEncoderTag /\ Len(extraData) < 29) =>
               routing.format \in {"current", "structureOnly"}
        /\ (routing.format # "current" /\ Len(extraData) >= 29) =>
               routing.format = "legacy"

\* What the classification is: the CBOR branch is taken exactly on a first
\* byte 0xb9, and a blob that fails to decode is not given to the legacy
\* layout.
RoutingClassificationByB9 ==
    ExtraReported =>
        /\ routing.format \in {"current", "structureOnly"}
               <=> (extraData # <<>> /\ extraData[1] = 185)
        /\ routing.format = "legacy"
               <=> (extraData # <<>> /\ extraData[1] # 185 /\ Len(extraData) >= 29)

FailedBlobNotLegacy ==
    /\ ExtraReported
    /\ Len(extraData) >= 29
    /\ routing.format = "structureOnly"

\* The CBOR unsigned integer of the number hi * 65536 + lo.
ClaimedUint(c) ==
    IF c.hi = 0 /\ c.lo < 24 THEN <<c.lo>>
    ELSE IF c.hi = 0 /\ c.lo < 256 THEN <<24, c.lo>>
    ELSE IF c.hi = 0 THEN <<25, c.lo \div 256, c.lo % 256>>
    ELSE <<26, c.hi \div 256, c.hi % 256, c.lo \div 256, c.lo % 256>>

ClaimedBlob(c, l, s) ==
    <<164>> \o <<97, 118, 1>> \o <<97, 99>> \o ClaimedUint(c)
    \o <<97, 108, 84>> \o l \o <<97, 115, 88, 64>> \o s

ChainIdEncodable(c) == c.lo >= 0 /\ c.lo < 65536 /\ c.hi >= 0 /\ c.hi < 65536

\* C17: routing-blob encoding.  With the fallback encoder the extra of a
\* returned script is the map-of-4 header, then v as 0x01, c in the
\* shortest of the four big-endian forms, l as 0x54 and its 20 bytes, s as
\* 0x58 0x40 and its 64 bytes, each after its one-character key; and a
\* call with a chain id that is negative, not an integer or not below 2^32
\* fails with an error.
RoutingBlobEncoding ==
    (~lib /\ params # NoParams) =>
        /\ built.ok =>
               /\ ChainIdEncodable(params.chainId)
               /\ built.extra = ClaimedBlob(params.chainId,
                                            hexToBytes(params.l2Address).val,
                                            hexToBytes(params.signatureRS).val)
        /\ ~ChainIdEncodable(params.chainId) =>
               ~built.ok /\ built.err # "none" /\ built.script = <<>>

FourByteChainIdEncoded ==
    /\ pc = "built"
    /\ ~lib
    /\ built.ok
    /\ params.chainId = U(65535, 65535)
    /\ SubSeq(built.extra, 5, 11) = <<97, 99, 26, 255, 255, 255, 255>>

\* The refusals of the encoder itself, past the parameter checks.
ChainIdRefusedByEncoder ==
    /\ pc = "built"
    /\ ~lib
    /\ params.chainId \in {MinusOne, OneAndHalf, U(65536, 0)}
    /\ built.err = "Unsupported CBOR type"

KeyPushed(key) == IF Len(key) = 33 THEN SubSeq(key, 2, 33) ELSE key

\* C18: public-key normalization.  A returned script was built from a key
\* of 33 or 32 bytes and starts with 0x20, the last 32 bytes of the key and
\* 0xac; a call with a key of another length fails with an error.
KeyNormalization ==
    params # NoParams =>
        /\ built.ok =>
               /\ Len(params.publicKey) \in {32, 33}
               /\ SubSeq(built.script, 1, 34)
                      = <<32>> \o KeyPushed(params.publicKey) \o <<172>>
        /\ Len(params.publicKey) \notin {32, 33} =>
               ~built.ok /\ built.err # "none" /\ built.script = <<>>

CompressedKeyStripped ==
    /\ pc = "built"
    /\ built.ok
    /\ params.publicKey = <<2>> \o TestKeyX
    /\ SubSeq(built.script, 1, 34) = <<32>> \o TestKeyX \o <<172>>

WrongLengthKeyRefused ==
    /\ pc = "built"
    /\ Len(params.publicKey) \in {31, 34}
    /\ built.err = "pubkey must be 33-byte compressed or 32-byte x-only"

\* The text  ,"key":"  that starts a member after the first one.
MemberStart(key) == <<44, 34>> \o key \o <<34, 58, 34>>

HasMember(text, key) == Contains(text, MemberStart(key))

RECURSIVE Digits(_)
Digits(n) == IF n < 10 THEN <<48 + n>> ELSE Digits(n \div 10) \o <<48 + (n % 10)>>

ShapeOf(text, token, amount) ==
    /\ HasMember(text, <<99, 97>>) <=> token.mode = "issue"
    /\ HasMember(text, <<116, 105, 99, 107>>) <=> token.mode # "issue"
    /\ \/ Contains(text, MemberStart(<<111, 112>>) \o <<109, 105, 110, 116, 34>>)
       \/ Contains(text, MemberStart(<<111, 112>>)
                         \o <<116, 114, 97, 110, 115, 102, 101, 114, 34>>)
    /\ Contains(text, MemberStart(<<97, 109, 116>>) \o Digits(amount) \o <<34>>)

\* C19: transfer descriptor.  The content text of a returned script has
\* the member ca exactly when token.mode is 'issue' and the member tick
\* exactly when it is not, an op of "mint" or "transfer", and an amt that
\* is the decimal digits of the amount.
TransferShape ==
    built.ok => ShapeOf(built.content, params.token, params.amount)

\* The shape for tokens that carry the identifier their mode selects.
TransferShapeOfFullToken ==
    (built.ok /\ (IF params.token.mode = "issue" THEN params.token.ca
                  ELSE params.token.tick) # NULL)
        => ShapeOf(built.content, params.token, params.amount)

\* The script indexes the parser steps read.

\* Lines 43-55: at each offset the loop visits up to the first match, the
\* bytes i + j compared until the first mismatch.
SearchReads(bytes) ==
    LET found   == FindKasplex(bytes)
        visited == {i \in SearchOffsets(bytes) : found = -1 \/ i <= found}
    IN  UNION {{i + j : j \in {j \in 0..(Len(Kasplex) - 1) :
                                  \A k \in 0..(j - 1) : bytes[i + k + 1] = Kasplex[k + 1]}} :
               i \in visited}

\* Lines 66 and 225: the bytes the marker scan tests, from the read position
\* to the first byte that equals the marker.
ScanReads(bytes, from, b) ==
    {p \in from..(Len(bytes) - 1) : \A q \in from..(p - 1) : bytes[q + 1] # b}

\* Lines 83-99 and 233-249: the length byte and the length bytes that
\* follow an OP_PUSHDATA1 or OP_PUSHDATA2 once their test has passed.
LengthReads(bytes, at) ==
    LET lengthByte == bytes[at + 1]
        p == at + 1
    IN  {at} \cup
        (IF lengthByte = OP_PUSHDATA1 /\ ~(p >= Len(bytes)) THEN {p}
         ELSE IF lengthByte = OP_PUSHDATA2 /\ ~(p + 1 >= Len(bytes)) THEN {p, p + 1}
         ELSE {})

\* Lines 110 and 252: the bytes slice(from, from + n) copies.
SliceReads(from, n) == from..(from + n - 1)

\* Lines 78-110: the reads of the EXTRA lane step.
ExtraReads(bytes, at) ==
    IF at >= Len(bytes) THEN {}
    ELSE LET d == ExtraPushLength(bytes, at)
         IN  LengthReads(bytes, at) \cup
             (IF d.ok /\ ~(d.pos + d.len > Len(bytes)) THEN SliceReads(d.pos, d.len)
              ELSE {})

\* Lines 231-252: the reads of the CONTENT lane step.
ContentReads(bytes, at) ==
    IF at >= Len(bytes) THEN {}
    ELSE LET d == ContentPushLength(bytes, at)
         IN  LengthReads(bytes, at) \cup
             (IF d.ok /\ d.pos + d.len <= Len(bytes) THEN SliceReads(d.pos, d.len)
              ELSE {})

\* The reads of the parser step that is taken from the current state.
StepReads ==
    CASE pc = "marker"        -> SearchReads(scriptBytes)
      [] pc = "extraMarker"   -> ScanReads(scriptBytes, pos, OP_1)
      [] pc = "extraLen"      -> ExtraReads(scriptBytes, pos)
      [] pc = "contentMarker" -> ScanReads(scriptBytes, pos, OP_FALSE)
      [] pc = "contentLen"    -> ContentReads(scriptBytes, pos)
      [] OTHER                -> {}

MemorySafeStep ==
    /\ StepReads \subseteq 0..(Len(scriptBytes) - 1)
    /\ pc \in {"extraMarker", "extraLen", "extraDecode", "contentMarker", "contentLen"}
           => pos' >= pos
    /\ (pc = "extraLen" /\ pc' = "extraDecode") =>
           /\ pos' <= Len(scriptBytes)
           /\ extraData' = SubSeq(scriptBytes, pos' - Len(extraData') + 1, pos')
    /\ (pc = "contentLen" /\ content'.state = "text") =>
           pos' + ContentPushLength(scriptBytes, pos).len <= Len(scriptBytes)

\* C20: parser memory safety.  In every step of the parser, every index at
\* which the script is read lies in [0, length); the read position pos never
\* decreases; and where a lane payload is sliced the payload lies inside the
\* script: after the EXTRA slice pos is at most the length and the payload
\* is the declared number of bytes before pos, and a CONTENT payload is
\* decoded only when pos plus its declared length is at most the length.
ParserMemorySafety == [][MemorySafeStep]_vars

\* A parse that sliced both lanes, the CONTENT payload ending at the last
\* byte of the script.
BothLanesSliced ==
    /\ pc = "complete"
    /\ kasplexPos >= 0
    /\ extraData # <<>>
    /\ content.state = "text"
    /\ content.text # <<>>
    /\ pos + Len(Utf8Encode(content.text)) = Len(scriptBytes)

\* The three scans of the parser on a built script: the tag search, the scan
\* for 0x51 from the end of the tag, and the scan for 0x00 from the end of
\* the EXTRA payload.
MarkersLandOn(script, extra) ==
    /\ script[37] = 7
    /\ FindKasplex(script) = 37
    /\ TagOffsets(script) # {} /\ MinOf(TagOffsets(script)) = 37
    /\ ScanFor(script, 44, OP_1) = 44
    /\ LET after == 45 + Len(ClaimedPrefix(Len(extra))) + Len(extra)
       IN  ScanFor(script, after, OP_FALSE) = after

\* C21: marker location in built scripts.  In every script the generator
\* returns, the first occurrence of "kasplex" is the envelope tag at offset
\* 37, right after the length byte 0x07 at offset 36; the first 0x51 at or
\* after offset 44 is at offset 44; and the first 0x00 after the EXTRA
\* payload is the byte that follows it.
MarkerLocation ==
    built.ok => MarkersLandOn(built.script, built.extra)

\* The same for the keys whose pushed bytes do not contain the tag.
MarkerLocationPlainKey ==
    (built.ok /\ TagOffsets(XOnlyOf(params.publicKey)) = {}) =>
        MarkersLandOn(built.script, built.extra)

\* A script was returned for a key without the tag.
PlainKeyBuilt ==
    /\ pc = "built"
    /\ built.ok
    /\ TagOffsets(XOnlyOf(params.publicKey)) = {}
    /\ Len(built.extra) > 75

\* The parameters that are falsy in a call, in the order of the checks.
MissingNames(p) ==
    SelectSeq(<<"publicKey", "chainId", "l2Address", "signatureRS", "token", "amount", "to">>,
              LAMBDA n :
                  CASE n = "publicKey"   -> p.publicKey = NULL
                    [] n = "chainId"     -> p.chainId \in {UNDEFN, Small(0)}
                    [] n = "l2Address"   -> p.l2Address \in {NULL, <<>>}
                    [] n = "signatureRS" -> p.signatureRS \in {NULL, <<>>}
                    [] n = "token"       -> ~p.token.present
                    [] n = "amount"      -> p.amount \in {UNDEF, 0}
                    [] n = "to"          -> p.to \in {NULL, <<>>})

IsRequiredError(n, e) ==
    CASE n = "publicKey"   -> e = "publicKey is required"
      [] n = "chainId"     -> e = "chainId is required"
      [] n = "l2Address"   -> e = "l2Address is required"
      [] n = "signatureRS" -> e = "signatureRS is required"
      [] n = "token"       -> e = "token is required"
      [] n = "amount"      -> e = "amount is required"
      [] n = "to"          -> e = "to is required"

RequiredErrors ==
    {"publicKey is required", "chainId is required", "l2Address is required",
     "signatureRS is required", "token is required", "amount is required",
     "to is required"}

====
